---- MODULE Spec2Model ----
(***************************************************************************)
(* Model of util/reply_hnt_web.py: locate a browser tab by title           *)
(* substring, switch to it, connect a cdp session, optionally navigate to  *)
(* the most recent conversation fork, and focus the reply textarea.        *)
(*                                                                         *)
(* Text values (titles, keys, ids, urls, paths, fork ids) are sequences of *)
(* one-character strings.  Null is the Python None / JavaScript null /     *)
(* missing dictionary key; it is a sequence too, so that it can be         *)
(* compared with text.                                                     *)
(***************************************************************************)
EXTENDS Integers, Sequences, FiniteSets, TLC

VARIABLES pc, key, most_recent_fork, tabs, tab, log, page, assigned

vars == <<pc, key, most_recent_fork, tabs, tab, log, page, assigned>>

----------------------------------------------------------------------------
(* Bounds of the model.                                                    *)

MaxTitleLen == 2
MaxKeyLen == 2
MaxTabs == 2
MaxRunTabs == 2
MaxForks == 2
MaxPathLen == 5

----------------------------------------------------------------------------
(* Text.                                                                   *)

Null == <<"<null>">>

RECURSIVE StringsUpTo(_, _)
StringsUpTo(alphabet, n) ==
  IF n = 0 THEN {<<>>}
  ELSE LET shorter == StringsUpTo(alphabet, n - 1)
       IN  shorter \cup {Append(s, c) : s \in {t \in shorter : Len(t) = n - 1}, c \in alphabet}

\* Python truthiness of an optional string: None and "" are falsy.
Truthy(v) == v # Null /\ v # <<>>

\* Python's `a or b` on optional strings.
Or(a, b) == IF Truthy(a) THEN a ELSE b

\* str.lower() on one character.
LowerChar(c) ==
  CASE c = "A" -> "a"
    [] c = "B" -> "b"
    [] c = "C" -> "c"
    [] OTHER -> c

\* str.lower()
lower(s) == [i \in 1..Len(s) |-> LowerChar(s[i])]

\* Python's `needle in haystack` on strings.
In(needle, haystack) ==
  \E i \in 0..(Len(haystack) - Len(needle)) :
    \A j \in 1..Len(needle) : haystack[i + j] = needle[j]

IsSpace(c) == c = " "

\* str.strip() / String.prototype.trim()
RECURSIVE strip(_)
strip(s) ==
  IF s = <<>> THEN s
  ELSE IF IsSpace(Head(s)) THEN strip(Tail(s))
  ELSE IF IsSpace(s[Len(s)]) THEN strip(SubSeq(s, 1, Len(s) - 1))
  ELSE s

----------------------------------------------------------------------------
(* Command lines, messages and the log of what the run does.               *)

Host == "127.0.0.1"
Port == "9222"
Session == "reply-hnt-web"

Cmd(verb, session, target, script) ==
  [verb |-> verb, host |-> Host, port |-> Port, session |-> session,
   target |-> target, script |-> script]

NoCmd == Cmd("", "", Null, "")

\* ["cdp", "tabs", "list", "--host", host, "--port", str(port), "--pretty=false"]
ListCmd == Cmd("tabs list", "", Null, "")
\* ["cdp", "tabs", "switch", "--host", host, "--port", str(port), tab_id]
SwitchCmd(tab_id) == Cmd("tabs switch", "", tab_id, "")
\* The connect command line with the session name where the url belongs.
ConnectCmd_session_as_url(session, target_url) == Cmd("connect", session, Null, "")

\* ["cdp", "connect", session, "--host", host, "--port", str(port), "--url", target_url]
ConnectCmd(session, target_url) == Cmd("connect", session, target_url, "")
\* ["cdp", "eval", session, script]
ForkEvalCmd(session) == Cmd("eval", session, Null, "fork-navigation")
FocusEvalCmd(session) == Cmd("eval", session, Null, "reply-focus")

Msg(text, cmd, code, detail) ==
  [text |-> text, cmd |-> cmd, code |-> code, detail |-> detail,
   key |-> <<>>, titles |-> <<>>]

NoMsg == Msg("", NoCmd, 0, <<>>)

\* What json.loads makes of a command's captured standard output.
NoPayload == [action |-> "<missing>", reason |-> "<missing>", targetForkId |-> Null,
              currentConversationId |-> Null, error |-> Null]

NoOutput == [kind |-> "none", payload |-> NoPayload, tabs |-> <<>>]
Unparseable == [kind |-> "unparseable", payload |-> NoPayload, tabs |-> <<>>]
NonMapping == [kind |-> "nonmapping", payload |-> NoPayload, tabs |-> <<>>]
Mapping(p) == [kind |-> "mapping", payload |-> p, tabs |-> <<>>]
TabList(l) == [kind |-> "tabs", payload |-> NoPayload, tabs |-> l]

\* Log entries: an external command that ran to its exit, a line printed on
\* standard output, a warning printed on standard error, the end of the process.
Ran(cmd, rc, out) == [ev |-> "ran", cmd |-> cmd, rc |-> rc, out |-> out, msg |-> NoMsg]
Printed(msg) == [ev |-> "stdout", cmd |-> NoCmd, rc |-> 0, out |-> NoOutput, msg |-> msg]
Warned(msg) == [ev |-> "stderr", cmd |-> NoCmd, rc |-> 0, out |-> NoOutput, msg |-> msg]
Exited(code, msg) == [ev |-> "exit", cmd |-> NoCmd, rc |-> code, out |-> NoOutput, msg |-> msg]

\* raise SystemExit(message): the message goes to standard error, exit status 1.
SystemExit(msg) == Exited(1, msg)

\* `if process.returncode == 1` in place of the test of line 65.
command_failed_only_one(rc) == rc = 1

\* if process.returncode != 0:
command_failed(rc) == rc # 0

\* run_cdp: the text returned, or the SystemExit raised, for a command that
\* exited with rc having written out and err.
run_cdp(cmd, capture, rc, out, err) ==
  IF command_failed(rc)
  THEN [raised |-> TRUE, output |-> NoOutput,
        message |-> Msg("Command failed with exit code", cmd, rc,
                        IF capture /\ err # <<>> THEN strip(err) ELSE <<>>)]
  ELSE [raised |-> FALSE, output |-> IF capture THEN out ELSE NoOutput,
        message |-> NoMsg]

\* `if tab_id is None` in place of `if not tab_id`.
HasId_not_none(t) == t.id # Null

\* tab_id = tab.get("id"); if not tab_id: ...
HasId(t) == Truthy(t.id)

\* `if target_url is None` in place of `if not target_url`.
HasUrl_not_none(t) == t.url # Null

\* target_url = tab.get("url"); if not target_url: ...
HasUrl(t) == Truthy(t.url)

FocusedMsg == Msg("Tab activated and textarea focused.", NoCmd, 0, <<>>)
LatestForkMsg == Msg("Tab activated and navigated to the latest fork.", NoCmd, 0, <<>>)
NavigatedMsg(target) == Msg("Tab activated and navigated to fork", NoCmd, 0, target)

LatestFork == <<"latest fork">>

\* print(status_message or default)
MsgOr(m, default) == IF m = NoMsg THEN default ELSE m

\* `return False, None` in place of the `return True, None` of lines 225, 227.
proceed_to_focus_dropped(warnings) ==
  [should_focus |-> FALSE, status_message |-> NoMsg, warnings |-> warnings]

\* return True, None
proceed_to_focus(warnings) ==
  [should_focus |-> TRUE, status_message |-> NoMsg, warnings |-> warnings]

\* The test of line 233 skipped when the script reported an error.
is_navigated_unless_error(p) == p.action = "navigated" /\ p.reason # "error"

\* if payload.get("action") == "navigated":
is_navigated(p) == p.action = "navigated"

\* payload.get("targetForkId") or payload.get("currentConversationId") or "latest fork"
fork_target(p) == Or(Or(p.targetForkId, p.currentConversationId), LatestFork)

\* maybe_switch_to_most_recent_fork after run_cdp has returned: the pair
\* returned and the warnings printed on the way.
handle_fork_output(out) ==
  IF out.kind = "unparseable"
  THEN proceed_to_focus(<<Warned(Msg("Warning: unable to parse CDP eval output for fork navigation",
                                     NoCmd, 0, <<>>))>>)
  ELSE IF out.kind # "mapping"
  THEN proceed_to_focus(<<>>)
  ELSE LET p == out.payload
           warnings == IF p.reason = "error" /\ Truthy(p.error)
                       THEN <<Warned(Msg("Warning: fork navigation failed inside the tab",
                                         NoCmd, 0, p.error))>>
                       ELSE <<>>
       IN  IF is_navigated(p)
           THEN [should_focus |-> FALSE,
                 status_message |-> NavigatedMsg(fork_target(p)),
                 warnings |-> warnings]
           ELSE proceed_to_focus(warnings)

----------------------------------------------------------------------------
(* find_tab                                                                *)

Untitled == <<"<untitled>">>

\* tab.get("title") or ""
TitleOrEmpty(t) == Or(t.title, <<>>)

\* find_tab's loop with the title left as it is: `if needle in title`.
RECURSIVE find_tab_loop_unlowered(_, _, _)
find_tab_loop_unlowered(tablist, needle, i) ==
  IF i > Len(tablist) THEN 0
  ELSE IF In(needle, TitleOrEmpty(tablist[i])) THEN i
  ELSE find_tab_loop_unlowered(tablist, needle, i + 1)

\* The loop of find_tab from position i on: the index of the first tab whose
\* lowercased title contains the needle, 0 when the loop runs off the end.
RECURSIVE find_tab_loop(_, _, _)
find_tab_loop(tablist, needle, i) ==
  IF i > Len(tablist) THEN 0
  ELSE IF In(needle, lower(TitleOrEmpty(tablist[i]))) THEN i
  ELSE find_tab_loop(tablist, needle, i + 1)

NoTab == [id |-> Null, title |-> Null, url |-> Null]

\* find_tab: the tab returned, or the SystemExit raised.
find_tab(tablist, k) ==
  LET i == find_tab_loop(tablist, lower(k), 1)
  IN  IF i > 0
      THEN [raised |-> FALSE, index |-> i, tab |-> tablist[i], message |-> NoMsg]
      ELSE [raised |-> TRUE, index |-> 0, tab |-> NoTab,
            message |-> [Msg("No tab title contains key. Available titles:", NoCmd, 0, <<>>)
                           EXCEPT !.key = k,
                                  !.titles = [j \in 1..Len(tablist) |->
                                                Or(tablist[j].title, Untitled)]]]

NotSearched == [raised |-> FALSE, index |-> 0, tab |-> NoTab, message |-> NoMsg]

----------------------------------------------------------------------------
(* Inputs of the tab locator.                                              *)

TitleAlphabet == {"A", "a", "b"}

Titles == StringsUpTo(TitleAlphabet, MaxTitleLen) \cup {Null}

KeyAlphabet == {"A", "b"}

Keys == StringsUpTo(KeyAlphabet, MaxKeyLen)

RECURSIVE SeqsUpTo(_, _)
SeqsUpTo(S, n) ==
  IF n = 0 THEN {<<>>}
  ELSE LET shorter == SeqsUpTo(S, n - 1)
       IN  shorter \cup {Append(s, e) : s \in {t \in shorter : Len(t) = n - 1}, e \in S}

\* Tabs as `cdp tabs list` prints them; find_tab reads the title only.
TitledTabs == {[id |-> <<"7">>, title |-> t, url |-> <<"u">>] : t \in Titles}

NoPage == [convo |-> "absent", forks |-> <<>>, pathname |-> <<>>]

InitFind ==
  /\ pc = "find"
  /\ key \in Keys
  /\ tabs \in SeqsUpTo(TitledTabs, MaxTabs)
  /\ most_recent_fork = FALSE
  /\ tab = NotSearched
  /\ log = <<>>
  /\ page = NoPage
  /\ assigned = Null

FindTab ==
  /\ pc = "find"
  /\ tab' = find_tab(tabs, key)
  /\ pc' = "found"
  /\ UNCHANGED <<key, most_recent_fork, tabs, log, page, assigned>>

NextFind == FindTab

SpecFind == InitFind /\ [][NextFind]_vars

----------------------------------------------------------------------------
(* The run of main(): one action per external command, together with the   *)
(* code that follows it up to the next command.                            *)

ExitCodes == {0, 1, 2}

ToolStderrs == {<<>>, <<" ">>, <<"e", " ">>}

RunTitles == {Null, <<"A", "b">>}
RunKeys == {<<"a", "B">>, <<"b", "b">>}
RunIds == {Null, <<>>, <<"7">>}
RunUrls == {Null, <<>>, <<"u">>}

RunTabs == [id : RunIds, title : RunTitles, url : RunUrls]

\* What `cdp tabs list` prints: text that is no JSON, or a JSON array of tab
\* objects (the empty array included).
ListOutputs == {Unparseable} \cup {TabList(l) : l \in SeqsUpTo(RunTabs, MaxRunTabs)}

Actions == {"focus", "navigated", "<missing>"}
PayloadReasons == {"default", "error"}
Payloads == [action : Actions, reason : PayloadReasons,
             targetForkId : {Null, <<>>, <<"x">>},
             currentConversationId : {Null, <<>>, <<"y">>},
             error : {Null, <<"m">>}]

EvalOutputs == {Unparseable, NonMapping} \cup {Mapping(p) : p \in Payloads}

Init ==
  /\ pc = "start"
  /\ key \in RunKeys
  /\ most_recent_fork \in BOOLEAN
  /\ tabs = <<>>
  /\ tab = NotSearched
  /\ log = <<>>
  /\ page = NoPage
  /\ assigned = Null

\* tabs = list_tabs(...) ... tab_id = tab.get("id"): lines 241-247.
ListTabs ==
  /\ pc = "start"
  /\ \E rc \in ExitCodes, out \in ListOutputs, err \in ToolStderrs :
       LET r == run_cdp(ListCmd, TRUE, rc, out, err)
           ran == Ran(ListCmd, rc, r.output)
           f == find_tab(r.output.tabs, key)
           fatal(m) == /\ log' = log \o <<ran, SystemExit(m)>>
                       /\ pc' = "done"
       IN  /\ tabs' = r.output.tabs
           /\ IF r.raised THEN fatal(r.message) /\ tab' = NotSearched
              ELSE IF r.output.kind = "unparseable"
              THEN /\ fatal(Msg("Unable to parse cdp tabs list output as JSON", NoCmd, 0, <<>>))
                   /\ tab' = NotSearched
              ELSE IF r.output.tabs = <<>>
              THEN /\ fatal(Msg("No discoverable tabs. Is Chrome running with --remote-debugging-port?",
                                NoCmd, 0, <<>>))
                   /\ tab' = NotSearched
              ELSE /\ tab' = f
                   /\ IF f.raised THEN fatal(f.message)
                      ELSE IF ~HasId(f.tab)
                      THEN fatal(Msg("Selected tab has no ID; cannot continue.", NoCmd, 0, <<>>))
                      ELSE /\ log' = Append(log, ran)
                           /\ pc' = "switch"
  /\ UNCHANGED <<key, most_recent_fork, page, assigned>>

\* switch_tab(tab_id, ...); target_url = tab.get("url"): lines 248-251.
SwitchTab ==
  /\ pc = "switch"
  /\ \E rc \in ExitCodes :
       LET cmd == SwitchCmd(tab.tab.id)
           r == run_cdp(cmd, FALSE, rc, NoOutput, <<>>)
           ran == Ran(cmd, rc, r.output)
       IN  IF r.raised
           THEN log' = log \o <<ran, SystemExit(r.message)>> /\ pc' = "done"
           ELSE IF ~HasUrl(tab.tab)
           THEN /\ log' = log \o <<ran, SystemExit(Msg("Selected tab has no URL; cannot connect.",
                                                       NoCmd, 0, <<>>))>>
                /\ pc' = "done"
           ELSE log' = Append(log, ran) /\ pc' = "connect"
  /\ UNCHANGED <<key, most_recent_fork, tabs, tab, page, assigned>>

\* connect_session(...); should_focus = True; if args.most_recent_fork: lines 252-255.
ConnectSession ==
  /\ pc = "connect"
  /\ \E rc \in ExitCodes :
       LET cmd == ConnectCmd(Session, tab.tab.url)
           r == run_cdp(cmd, FALSE, rc, NoOutput, <<>>)
           ran == Ran(cmd, rc, r.output)
       IN  IF r.raised
           THEN log' = log \o <<ran, SystemExit(r.message)>> /\ pc' = "done"
           ELSE /\ log' = Append(log, ran)
                /\ pc' = IF most_recent_fork THEN "fork" ELSE "focus"
  /\ UNCHANGED <<key, most_recent_fork, tabs, tab, page, assigned>>

\* maybe_switch_to_most_recent_fork for a command that exited with rc having
\* written out and err, then lines 257-261 of main as far as the next command.
ForkEval(rc, out, err) ==
  LET cmd == ForkEvalCmd(Session)
      r == run_cdp(cmd, TRUE, rc, out, err)
      ran == Ran(cmd, rc, r.output)
      h == handle_fork_output(r.output)
  IN  IF r.raised
      THEN log' = log \o <<ran, SystemExit(r.message)>> /\ pc' = "done"
      ELSE IF h.should_focus
      THEN log' = log \o <<ran>> \o h.warnings /\ pc' = "focus"
      ELSE /\ log' = log \o <<ran>> \o h.warnings
                     \o <<Printed(MsgOr(h.status_message, LatestForkMsg)), Exited(0, NoMsg)>>
           /\ pc' = "done"

MaybeSwitchToMostRecentFork ==
  /\ pc = "fork"
  /\ \E rc \in ExitCodes, out \in EvalOutputs, err \in ToolStderrs : ForkEval(rc, out, err)
  /\ UNCHANGED <<key, most_recent_fork, tabs, tab, page, assigned>>

\* focus_reply(args.session); print(status_message or "..."): lines 258-259.
FocusReply ==
  /\ pc = "focus"
  /\ \E rc \in ExitCodes :
       LET cmd == FocusEvalCmd(Session)
           r == run_cdp(cmd, FALSE, rc, NoOutput, <<>>)
           ran == Ran(cmd, rc, r.output)
       IN  IF r.raised
           THEN log' = log \o <<ran, SystemExit(r.message)>> /\ pc' = "done"
           ELSE /\ log' = log \o <<ran, Printed(MsgOr(NoMsg, FocusedMsg)), Exited(0, NoMsg)>>
                /\ pc' = "done"
  /\ UNCHANGED <<key, most_recent_fork, tabs, tab, page, assigned>>

Next ==
  \/ ListTabs
  \/ SwitchTab
  \/ ConnectSession
  \/ MaybeSwitchToMostRecentFork
  \/ FocusReply

Spec == Init /\ [][Next]_vars

----------------------------------------------------------------------------
(* The script injected by maybe_switch_to_most_recent_fork.                *)

\* An entry of convo.forks that is not a string (a number, null, an object).
NotAString == <<"<number>">>

PathAlphabet == {"/", "c", "x"}

\* Entries of convo.forks: the empty and a blank string, the ids "x" and "c",
\* an id with a leading blank, and an entry that is no string.
ForkEntries == {<<>>, <<" ">>, <<"x">>, <<"c">>, <<" ", "x">>, NotAString}

\* location.pathname of a page: it starts with "/".
Paths == {<<"/">> \o p : p \in StringsUpTo(PathAlphabet, MaxPathLen - 1)}

\* globalThis.__HINATA_ACTIVE_CONVERSATION: missing, raising when read, with a
\* forks attribute that is no array, or with an array of forks.
Pages ==
  {[convo |-> c, forks |-> <<>>, pathname |-> p] :
     c \in {"absent", "throws", "forks-not-array"}, p \in Paths}
  \cup {[convo |-> "array", forks |-> f, pathname |-> p] :
          f \in SeqsUpTo(ForkEntries, MaxForks), p \in Paths}

\* (fork) => typeof fork === "string" && fork.trim() !== ""
IsValidFork(fork) == fork # NotAString /\ strip(fork) # <<>>

\* /\/c\/([^/]+)/ tried at position i: "/c/" followed by a character other than "/".
MatchesAt(p, i) ==
  /\ i + 3 <= Len(p)
  /\ p[i] = "/" /\ p[i + 1] = "c" /\ p[i + 2] = "/"
  /\ p[i + 3] # "/"

\* The leftmost position at which the pattern matches, 0 when it does not.
RECURSIVE match_from(_, _)
match_from(p, i) ==
  IF i > Len(p) THEN 0
  ELSE IF MatchesAt(p, i) THEN i
  ELSE match_from(p, i + 1)

\* ([^/]+) from position i: the longest run of characters other than "/".
RECURSIVE capture_from(_, _)
capture_from(p, i) ==
  IF i > Len(p) \/ p[i] = "/" THEN <<>>
  ELSE <<p[i]>> \o capture_from(p, i + 1)

\* match ? match[1] : ""
current_of(pathname) ==
  LET m == match_from(pathname, 1)
  IN  IF m = 0 THEN <<>> ELSE capture_from(pathname, m + 3)

\* String.prototype.split("/")
RECURSIVE split(_)
split(s) ==
  LET slashes == {i \in 1..Len(s) : s[i] = "/"}
  IN  IF slashes = {} THEN <<s>>
      ELSE LET i == CHOOSE k \in slashes : \A l \in slashes : k <= l
           IN  <<SubSeq(s, 1, i - 1)>> \o split(SubSeq(s, i + 1, Len(s)))

\* Array.prototype.join("/")
RECURSIVE join(_)
join(segments) ==
  IF Len(segments) = 0 THEN <<>>
  ELSE IF Len(segments) = 1 THEN segments[1]
  ELSE segments[1] \o <<"/">> \o join(Tail(segments))

\* Array.prototype.indexOf, counting from 1; 0 when the value is not there.
index_of(segments, v) ==
  LET hits == {i \in 1..Len(segments) : segments[i] = v}
  IN  IF hits = {} THEN 0 ELSE CHOOSE k \in hits : \A l \in hits : k <= l

\* The pathname the script gives the URL it navigates to.
fork_pathname(pathname, latest) ==
  LET segments == split(pathname)
      idx == index_of(segments, <<"c">>)
  IN  IF idx >= 1 /\ idx + 1 <= Len(segments)
      THEN join([segments EXCEPT ![idx + 1] = latest])
      ELSE <<"/", "c", "/">> \o latest

\* `forks[0]` in place of the last entry.
latest_of_first(forks) == forks[1]

\* const latest = forks[forks.length - 1];
latest_of(forks) == forks[Len(forks)]

DefaultResponse ==
  [action |-> "focus", reason |-> "default", targetForkId |-> Null,
   currentConversationId |-> Null, error |-> Null]

\* `latest ? "already-on-fork" : "missing-latest"`
idle_reason(latest, current) ==
  IF latest # <<>> THEN "already-on-fork" ELSE "missing-latest"

\* `latest && current && latest !== current`
should_navigate(latest, current) ==
  latest # <<>> /\ current # <<>> /\ latest # current

\* The test of line 172 without `convo.forks.length === 0`.
has_no_forks_unless_empty(pg) == pg.convo # "array"

\* `!convo || !Array.isArray(convo.forks) || convo.forks.length === 0`
has_no_forks(pg) == pg.convo # "array" \/ Len(pg.forks) = 0

\* The script on a page: the response it returns and the pathname it hands to
\* location.assign (Null when it does not navigate).
fork_script(pg) ==
  IF pg.convo = "throws"
  THEN [response |-> [DefaultResponse EXCEPT !.reason = "error", !.error = <<"m">>],
        assigned |-> Null]
  ELSE IF has_no_forks(pg)
  THEN [response |-> [DefaultResponse EXCEPT !.reason = "no-forks"], assigned |-> Null]
  ELSE LET forks == SelectSeq(pg.forks, IsValidFork)
       IN  IF Len(forks) = 0
           THEN [response |-> [DefaultResponse EXCEPT !.reason = "no-valid-forks"],
                 assigned |-> Null]
           ELSE LET latest == latest_of(forks)
                    current == current_of(pg.pathname)
                    r == [DefaultResponse EXCEPT
                            !.targetForkId = latest,
                            !.currentConversationId = IF current # <<>> THEN current ELSE Null]
                IN  IF should_navigate(latest, current)
                    THEN [response |-> [r EXCEPT !.action = "navigated",
                                                 !.reason = "navigated-to-fork"],
                          assigned |-> fork_pathname(pg.pathname, latest)]
                    ELSE [response |-> [r EXCEPT !.reason = idle_reason(latest, current)],
                          assigned |-> Null]

----------------------------------------------------------------------------
(* The fork-navigation step on a page: the run from the connected session  *)
(* on, with --most-recent-fork, the eval command printing the script's     *)
(* response as JSON.                                                       *)

ExampleTab == [id |-> <<"7">>, title |-> <<"A", "b">>, url |-> <<"u">>]
ExampleKey == <<"a", "B">>

InitScript ==
  /\ pc = "fork"
  /\ key = ExampleKey
  /\ most_recent_fork = TRUE
  /\ tabs = <<ExampleTab>>
  /\ tab = find_tab(tabs, key)
  /\ log = <<Ran(ListCmd, 0, TabList(tabs)), Ran(SwitchCmd(ExampleTab.id), 0, NoOutput),
             Ran(ConnectCmd(Session, ExampleTab.url), 0, NoOutput)>>
  /\ page \in Pages
  /\ assigned = Null

EvalForkScript ==
  /\ pc = "fork"
  /\ LET s == fork_script(page)
     IN  /\ assigned' = s.assigned
         /\ ForkEval(0, Mapping(s.response), <<>>)
  /\ UNCHANGED <<key, most_recent_fork, tabs, tab, page>>

NextScript ==
  \/ EvalForkScript
  \/ FocusReply

SpecScript == InitScript /\ [][NextScript]_vars

----------------------------------------------------------------------------
(* Reading the log.                                                        *)

IsRan(e, verb, script) == e.ev = "ran" /\ e.cmd.verb = verb /\ e.cmd.script = script

RanAt(verb, script) == {i \in 1..Len(log) : IsRan(log[i], verb, script)}

Issued(verb, script) == RanAt(verb, script) # {}

IsCommand(e) == e.ev = "ran"

Commands == SelectSeq(log, IsCommand)

IsPrinted(e) == e.ev = "stdout"

Stdout == SelectSeq(log, IsPrinted)

Finished == pc = "done" /\ Len(log) > 0 /\ log[Len(log)].ev = "exit"

ExitStatus == log[Len(log)].rc

FatalMessage == log[Len(log)].msg

\* The run has ended with a message on standard error and a non-zero status.
EndedFatally == Finished /\ ExitStatus # 0 /\ FatalMessage # NoMsg

\* Title matching, stated without the loop of find_tab.
Matches(t, k) == In(lower(k), lower(IF t.title = Null THEN <<>> ELSE t.title))

SomeTabMatches == \E i \in 1..Len(tabs) : Matches(tabs[i], key)

FirstMatch ==
  tabs[CHOOSE i \in 1..Len(tabs) :
         Matches(tabs[i], key) /\ \A j \in 1..(i - 1) : ~Matches(tabs[j], key)]

NonEmpty(v) == v # Null /\ Len(v) > 0

----------------------------------------------------------------------------
(* C1: find_tab returns the first tab, in list order, whose lowercased     *)
(* title contains the lowercased key (a missing title counts as empty);    *)
(* when no tab matches it returns no tab and raises an error that lists    *)
(* the title of every tab of the list.                                     *)

C1_FindTabFirstMatch ==
  pc = "found" =>
    IF SomeTabMatches
    THEN /\ ~tab.raised
         /\ tab.index \in 1..Len(tabs)
         /\ tab.tab = tabs[tab.index]
         /\ Matches(tabs[tab.index], key)
         /\ \A j \in 1..(tab.index - 1) : ~Matches(tabs[j], key)
    ELSE /\ tab.raised
         /\ tab.tab = NoTab
         /\ tab.message.key = key
         /\ Len(tab.message.titles) = Len(tabs)
         /\ \A j \in 1..Len(tabs) :
              tab.message.titles[j] =
                (IF NonEmpty(tabs[j].title) THEN tabs[j].title ELSE Untitled)

\* The second of two tabs is found: the first does not match, and the key
\* matches the second only once both are lowercased.
C1_Witness ==
  /\ pc = "found"
  /\ Len(tabs) = 2
  /\ ~Matches(tabs[1], key)
  /\ Matches(tabs[2], key)
  /\ ~In(key, tabs[2].title)
  /\ tab.index = 2

----------------------------------------------------------------------------
(* C2: when the tab lookup does not succeed (the tab-list command exits    *)
(* non-zero, its output is no JSON, the list is empty, no title matches    *)
(* the key, or the matched tab has no id) the run ends with a fatal error  *)
(* and a non-zero status, and no switch, connect or eval command is ever   *)
(* issued: the tab-list command is the only command of the run.            *)

LookupFails ==
  /\ pc # "start"
  /\ \/ log[1].rc # 0
     \/ log[1].out.kind = "unparseable"
     \/ tabs = <<>>
     \/ ~SomeTabMatches
     \/ ~NonEmpty(FirstMatch.id)

C2_FailedLookupIssuesNothing ==
  LookupFails =>
    /\ EndedFatally
    /\ Len(Commands) = 1
    /\ IsRan(Commands[1], "tabs list", "")
    /\ ~Issued("tabs switch", "") /\ ~Issued("connect", "")
    /\ ~Issued("eval", "fork-navigation") /\ ~Issued("eval", "reply-focus")
    /\ Stdout = <<>>

\* The second of two tabs matches and has the empty string as its id.
C2_Witness ==
  /\ Finished
  /\ log[1].rc = 0
  /\ Len(tabs) = 2
  /\ ~Matches(tabs[1], key)
  /\ Matches(tabs[2], key)
  /\ tabs[2].id = <<>>
  /\ FatalMessage.text = "Selected tab has no ID; cannot continue."

----------------------------------------------------------------------------
(* C3: when the matched tab has an id but its url is missing or empty, the *)
(* run issues the switch command for that id; the missing url ends the run *)
(* fatally only after that switch has succeeded (a failed switch ends it   *)
(* at the switch); connect and eval commands are never issued.             *)

MatchedTabLacksUrl ==
  /\ pc # "start"
  /\ log[1].rc = 0
  /\ SomeTabMatches
  /\ NonEmpty(FirstMatch.id)
  /\ ~NonEmpty(FirstMatch.url)

NoUrlText == "Selected tab has no URL; cannot connect."

C3_NoUrlFailsAfterSwitch ==
  MatchedTabLacksUrl =>
    /\ ~Issued("connect", "")
    /\ ~Issued("eval", "fork-navigation") /\ ~Issued("eval", "reply-focus")
    /\ Stdout = <<>>
    /\ \/ pc = "switch" /\ Len(log) = 1
       \/ /\ EndedFatally
          /\ Len(Commands) = 2
          /\ IsRan(Commands[1], "tabs list", "")
          /\ IsRan(Commands[2], "tabs switch", "")
          /\ Commands[2].cmd.target = FirstMatch.id
          /\ (Commands[2].rc = 0) <=> (FatalMessage.text = NoUrlText)
          /\ Commands[2].rc # 0 => FatalMessage.cmd = Commands[2].cmd

\* The matched tab has the empty string as its url and the switch succeeded.
C3_Witness ==
  /\ MatchedTabLacksUrl
  /\ FirstMatch.url = <<>>
  /\ Finished
  /\ Len(Commands) = 2
  /\ Commands[2].rc = 0
  /\ FatalMessage.text = NoUrlText

----------------------------------------------------------------------------
(* C4: a non-zero exit of the switch or of the connect command ends the    *)
(* run there: it is the last command of the run, nothing is printed on     *)
(* standard output, the process exits non-zero, and the error message      *)
(* names the failed command line and its exit code.                        *)

FailedSessionCommands ==
  {i \in 1..Len(log) :
     /\ IsRan(log[i], "tabs switch", "") \/ IsRan(log[i], "connect", "")
     /\ log[i].rc # 0}

C4_SwitchOrConnectFailureAborts ==
  \A i \in FailedSessionCommands :
    /\ EndedFatally
    /\ Len(log) = i + 1
    /\ \A j \in 1..Len(log) : j > i => log[j].ev # "ran"
    /\ Stdout = <<>>
    /\ FatalMessage.text = "Command failed with exit code"
    /\ FatalMessage.cmd = log[i].cmd
    /\ FatalMessage.code = log[i].rc

\* The connect command exits with status 2 after a successful switch.
C4_Witness ==
  /\ Finished
  /\ \E i \in FailedSessionCommands :
       /\ IsRan(log[i], "connect", "")
       /\ log[i].rc = 2
       /\ log[i].cmd.target = tab.tab.url

----------------------------------------------------------------------------
(* C5 as stated: with --most-recent-fork no failure of the fork-navigation *)
(* step ends the run; after a non-zero exit of its eval command, output    *)
(* that is no JSON, a result that is no mapping, or reason "error" without *)
(* action "navigated", the run goes on to the reply-focus eval.            *)

ForkEvalAt == RanAt("eval", "fork-navigation")

GoesOnToFocus(i) ==
  \/ pc = "focus" /\ Len(log) >= i
  \/ \E j \in RanAt("eval", "reply-focus") : j > i

SoftFailure(e) ==
  /\ e.rc = 0
  /\ \/ e.out.kind = "unparseable"
     \/ e.out.kind = "nonmapping"
     \/ /\ e.out.kind = "mapping"
        /\ e.out.payload.reason = "error"
        /\ e.out.payload.action # "navigated"

C5_Original ==
  \A i \in ForkEvalAt :
    (log[i].rc # 0 \/ SoftFailure(log[i])) => GoesOnToFocus(i)

(* C5 as amended: the failures of the fork-navigation step that leave the  *)
(* eval command's exit status zero (unparseable output, a result that is   *)
(* no mapping, reason "error" without action "navigated") do not end the   *)
(* run, which goes on to the reply-focus eval; a non-zero exit of the eval *)
(* command ends the run fatally, and no reply-focus eval is issued.        *)

C5_SoftForkFailuresGoOnToFocus ==
  \A i \in ForkEvalAt :
    /\ SoftFailure(log[i]) => GoesOnToFocus(i)
    /\ log[i].rc # 0 =>
         /\ EndedFatally
         /\ Len(log) = i + 1
         /\ FatalMessage.cmd = log[i].cmd
         /\ FatalMessage.code = log[i].rc
         /\ ~Issued("eval", "reply-focus")

\* A result that is no mapping, and the reply-focus eval after it.
C5_Witness ==
  /\ \E i \in ForkEvalAt :
       /\ log[i].out.kind = "nonmapping"
       /\ \E j \in RanAt("eval", "reply-focus") : j > i
  /\ Finished

----------------------------------------------------------------------------
(* C6 as stated: in every run that gets past connect, the reply-focus eval *)
(* is issued exactly when the fork-navigation step is disabled or its      *)
(* parsed result does not have action "navigated"; with action "navigated" *)
(* the focus eval is never issued and the last message on standard output  *)
(* names targetForkId, else currentConversationId, else "latest fork".     *)

PastConnect == \E i \in RanAt("connect", "") : log[i].rc = 0

NavigatedAt ==
  {i \in ForkEvalAt :
     /\ log[i].rc = 0
     /\ log[i].out.kind = "mapping"
     /\ log[i].out.payload.action = "navigated"}

NamedFork(p) ==
  IF NonEmpty(p.targetForkId) THEN p.targetForkId
  ELSE IF NonEmpty(p.currentConversationId) THEN p.currentConversationId
  ELSE LatestFork

NavigatedRunEndsNamingFork ==
  \A i \in NavigatedAt :
    /\ ~Issued("eval", "reply-focus")
    /\ Finished
    /\ ExitStatus = 0
    /\ Len(Stdout) = 1
    /\ Stdout[1].msg.text = "Tab activated and navigated to fork"
    /\ Stdout[1].msg.detail = NamedFork(log[i].out.payload)

C6_Original ==
  /\ (Finished /\ PastConnect) =>
       (Issued("eval", "reply-focus") <=> (~most_recent_fork \/ NavigatedAt = {}))
  /\ NavigatedRunEndsNamingFork

(* C6 as amended: in every run that gets past connect and in which the     *)
(* fork-navigation eval, when enabled, exits zero, the reply-focus eval is *)
(* issued exactly when the fork-navigation step is disabled or its parsed  *)
(* result does not have action "navigated"; with action "navigated"        *)
(* (whatever the reason) the focus eval is never issued and the last       *)
(* message on standard output names targetForkId, or                       *)
(* currentConversationId when targetForkId is absent or empty, or "latest  *)
(* fork" when both are absent or empty.                                    *)

ForkEvalExitedZero == \A i \in ForkEvalAt : log[i].rc = 0

C6_FocusUnlessNavigated ==
  /\ (Finished /\ PastConnect /\ ForkEvalExitedZero) =>
       (Issued("eval", "reply-focus") <=> (~most_recent_fork \/ NavigatedAt = {}))
  /\ NavigatedRunEndsNamingFork

\* Action "navigated" with reason "error", no target and a current id.
C6_Witness ==
  /\ Finished
  /\ \E i \in NavigatedAt :
       /\ log[i].out.payload.reason = "error"
       /\ log[i].out.payload.targetForkId = <<>>
       /\ log[i].out.payload.currentConversationId = <<"y">>

----------------------------------------------------------------------------
(* C7: without the fork flag, with a matched tab that has an id and a url, *)
(* and every command exiting zero, the commands are issued once each in    *)
(* the order list, switch(id), connect(session, url), reply-focus          *)
(* eval(session); "Tab activated and textarea focused." is printed only    *)
(* after the focus eval has exited zero, and the run exits with status 0.  *)

AllCommandsExitZero == \A i \in 1..Len(log) : log[i].ev = "ran" => log[i].rc = 0

PlainRun ==
  /\ ~most_recent_fork
  /\ pc # "start"
  /\ log[1].out.kind = "tabs"
  /\ SomeTabMatches
  /\ NonEmpty(FirstMatch.id)
  /\ NonEmpty(FirstMatch.url)
  /\ AllCommandsExitZero

C7_PlainRunOrder ==
  /\ (PlainRun /\ Finished) =>
       /\ Len(log) = 6
       /\ log[1].ev = "ran" /\ log[1].rc = 0
       /\ log[1].cmd = [verb |-> "tabs list", host |-> Host, port |-> Port,
                        session |-> "", target |-> Null, script |-> ""]
       /\ log[2].ev = "ran" /\ log[2].rc = 0
       /\ log[2].cmd = [verb |-> "tabs switch", host |-> Host, port |-> Port,
                        session |-> "", target |-> FirstMatch.id, script |-> ""]
       /\ log[3].ev = "ran" /\ log[3].rc = 0
       /\ log[3].cmd = [verb |-> "connect", host |-> Host, port |-> Port,
                        session |-> Session, target |-> FirstMatch.url, script |-> ""]
       /\ log[4].ev = "ran" /\ log[4].rc = 0
       /\ log[4].cmd = [verb |-> "eval", host |-> Host, port |-> Port,
                        session |-> Session, target |-> Null, script |-> "reply-focus"]
       /\ log[5].ev = "stdout"
       /\ log[5].msg.text = "Tab activated and textarea focused."
       /\ log[6].ev = "exit" /\ log[6].rc = 0
  /\ PlainRun => pc \in {"switch", "connect", "focus", "done"}
  /\ ~most_recent_fork =>
       \A i \in 1..Len(log) :
         log[i].ev = "stdout" =>
           i > 1 /\ IsRan(log[i - 1], "eval", "reply-focus") /\ log[i - 1].rc = 0

\* The second of two tabs is the matched one, and the run has ended.
C7_Witness ==
  /\ PlainRun
  /\ Finished
  /\ Len(tabs) = 2
  /\ ~Matches(tabs[1], key)
  /\ ExitStatus = 0

----------------------------------------------------------------------------
(* The fork-navigation script, stated without its loops.                   *)

\* A string with a character that is no white space.
ValidEntry(e) == e # NotAString /\ \E k \in 1..Len(e) : e[k] # " "

HasValidFork(pg) ==
  pg.convo = "array" /\ \E i \in 1..Len(pg.forks) : ValidEntry(pg.forks[i])

LastValidFork(pg) ==
  pg.forks[CHOOSE i \in 1..Len(pg.forks) :
             /\ ValidEntry(pg.forks[i])
             /\ \A j \in (i + 1)..Len(pg.forks) : ~ValidEntry(pg.forks[j])]

\* The positions of the pathname where "/c/" is followed by a character
\* other than "/".
IdStarts(p) ==
  {i \in 1..Len(p) :
     /\ i + 3 <= Len(p)
     /\ SubSeq(p, i, i + 2) = <<"/", "c", "/">>
     /\ p[i + 3] # "/"}

\* The conversation id of a pathname: the segment after the leftmost such
\* "/c/", the empty text when there is none.
CurrentId(p) ==
  IF IdStarts(p) = {} THEN <<>>
  ELSE LET i == CHOOSE k \in IdStarts(p) : \A l \in IdStarts(p) : k <= l
           ends == {e \in (i + 3)..Len(p) : \A l \in (i + 3)..e : p[l] # "/"}
           e == CHOOSE k \in ends : \A l \in ends : l <= k
       IN  SubSeq(p, i + 3, e)

ScriptRan == pc # "fork" /\ Len(log) >= 4 /\ IsRan(log[4], "eval", "fork-navigation")

\* The response of the script, as the host parsed it.
Response == log[4].out.payload

----------------------------------------------------------------------------
(* C8: for a forks array with at least one string that is not blank, the   *)
(* script takes as target the last entry of the forks that are non-blank   *)
(* strings, and it reports action "navigated" with reason                  *)
(* "navigated-to-fork" and navigates exactly when the target and the       *)
(* current conversation id are both non-empty and differ; otherwise the    *)
(* action stays "focus" and it does not navigate.                          *)

C8_TargetIsLastValidFork ==
  (ScriptRan /\ HasValidFork(page)) =>
    LET t == LastValidFork(page)
        c == CurrentId(page.pathname)
    IN  /\ Response.targetForkId = t
        /\ IF t # <<>> /\ c # <<>> /\ t # c
           THEN /\ Response.action = "navigated"
                /\ Response.reason = "navigated-to-fork"
                /\ assigned # Null
           ELSE /\ Response.action = "focus"
                /\ Response.reason # "navigated-to-fork"
                /\ assigned = Null

\* Forks ["x", " "] on /c/c: the blank entry is dropped, "x" is the target,
\* and the page is sent to /c/x.
C8_Witness ==
  /\ ScriptRan
  /\ page.convo = "array"
  /\ page.forks = <<<<"x">>, <<" ">>>>
  /\ page.pathname = <<"/", "c", "/", "c">>
  /\ Response.action = "navigated"
  /\ Response.targetForkId = <<"x">>
  /\ assigned = <<"/", "c", "/", "x">>

----------------------------------------------------------------------------
(* C9 as stated: with a conversation whose forks attribute is the empty    *)
(* array the script reports reason "no-valid-forks", does not navigate,    *)
(* and the host goes on to the reply-focus step.                           *)

EmptyForks == page.convo = "array" /\ page.forks = <<>>

HostGoesOnToFocus == pc = "focus" \/ Issued("eval", "reply-focus")

C9_Original ==
  (ScriptRan /\ EmptyForks) =>
    /\ Response.reason = "no-valid-forks"
    /\ Response.action = "focus"
    /\ assigned = Null
    /\ HostGoesOnToFocus

(* C9 as amended: with a conversation whose forks attribute is the empty   *)
(* array the script reports reason "no-forks" (before the filtering step), *)
(* does not navigate, and the host goes on to the reply-focus step.        *)

C9_EmptyForksReportNoForks ==
  (ScriptRan /\ EmptyForks) =>
    /\ Response.reason = "no-forks"
    /\ Response.action = "focus"
    /\ Response.targetForkId = Null
    /\ assigned = Null
    /\ HostGoesOnToFocus

\* The empty forks array on /c/x, and the reply-focus eval issued.
C9_Witness ==
  /\ ScriptRan
  /\ EmptyForks
  /\ page.pathname = <<"/", "c", "/", "x">>
  /\ Issued("eval", "reply-focus")

----------------------------------------------------------------------------
(* C10: the script reports reason "already-on-fork" only when the target   *)
(* fork id equals the current conversation id of the URL path, and         *)
(* "missing-latest" when the target is empty; it never reports             *)
(* "already-on-fork" when the target differs from the current id, a path   *)
(* without a /c/<id> segment included.                                     *)

C10_AlreadyOnForkOnlyWhenEqual ==
  (ScriptRan /\ HasValidFork(page)) =>
    /\ Response.reason = "already-on-fork" =>
         Response.targetForkId = CurrentId(page.pathname)
    /\ Response.targetForkId = <<>> => Response.reason = "missing-latest"

====
